---- MODULE Spec2Model ----
(***************************************************************************)
(* Model of the UniversalPage CLI `generate metadata` pipeline             *)
(* (src/src/commands/metadata/generate.ts) and of the interactive shell    *)
(* that dispatches it (main loop, help and quit commands).                  *)
(*                                                                         *)
(* File names are sequences of one-character strings so that the regular   *)
(* expressions and the number/string conversions of the code are computed  *)
(* rather than assumed.  An optional JavaScript value (T | undefined) is a *)
(* set with at most one element: {} is undefined, {v} is the value v.      *)
(***************************************************************************)
EXTENDS Integers, Sequences, FiniteSets, TLC

\* ------------------------------------------------------------------ bounds
MaxMetaFiles == 2
MaxMediaFiles == 3
MaxClock == 3

\* ------------------------------------------------------ characters, numbers
Digits == <<"0", "1", "2", "3", "4", "5", "6", "7", "8", "9">>

Letters == {"a", "b", "c", "d", "e", "f", "g", "h", "i", "j", "k", "l", "m",
            "n", "o", "p", "q", "r", "s", "t", "u", "v", "w", "x", "y", "z"}

IsDigit(c) == \E d \in 1..10 : Digits[d] = c

DigitValue(c) == (CHOOSE d \in 1..10 : Digits[d] = c) - 1

AllDigits(s) == Len(s) >= 1 /\ \A k \in 1..Len(s) : IsDigit(s[k])

AllLetters(s) == Len(s) >= 1 /\ \A k \in 1..Len(s) : s[k] \in Letters

\* Number("007") = 7: the decimal value of a digit sequence.
RECURSIVE Number(_)
Number(s) ==
    IF s = <<>> THEN 0
    ELSE 10 * Number(SubSeq(s, 1, Len(s) - 1)) + DigitValue(s[Len(s)])

\* String(7) = "7": the shortest decimal digit sequence of a natural number.
RECURSIVE NumberToString(_)
NumberToString(n) ==
    IF n < 10 THEN <<Digits[n + 1]>>
    ELSE NumberToString(n \div 10) \o <<Digits[(n % 10) + 1]>>

Tail0(s, k) == SubSeq(s, k, Len(s))

HasPrefix(s, p) == Len(s) >= Len(p) /\ SubSeq(s, 1, Len(p)) = p

HasSuffix(s, p) == Len(s) >= Len(p) /\ SubSeq(s, Len(s) - Len(p) + 1, Len(s)) = p

\* ------------------------------------------------------- file name patterns
JsonSuffix == <<".", "j", "s", "o", "n">>

\* tokenMetadataNamePattern.exec(name): the digit group, or no match.
TokenMetadataNameMatch(name) ==
    IF HasSuffix(name, JsonSuffix)
          /\ AllDigits(SubSeq(name, 1, Len(name) - Len(JsonSuffix)))
    THEN {SubSeq(name, 1, Len(name) - Len(JsonSuffix))}
    ELSE {}

CategoryPrefixes ==
    { [category |-> "image", prefix |-> <<"i", "m", "a", "g", "e", "-">>],
      [category |-> "asset", prefix |-> <<"a", "s", "s", "e", "t", "-">>],
      [category |-> "icon",  prefix |-> <<"i", "c", "o", "n", "-">>] }

\* <digits>.<letters>, anchored: the (digits, extension) groups or no match.
IndexExtensionMatch(s) ==
    { [digits |-> SubSeq(s, 1, k - 1), extension |-> Tail0(s, k + 1)] :
        k \in { j \in 1..Len(s) : /\ s[j] = "."
                                  /\ AllDigits(SubSeq(s, 1, j - 1))
                                  /\ AllLetters(Tail0(s, j + 1)) } }

\* mediaNamePattern.exec(name): groups (category or undefined, digits,
\* extension), or no match.
MediaNameMatch(name) ==
    UNION { { [category |-> {p.category}, digits |-> m.digits,
               extension |-> m.extension] :
                m \in IF HasPrefix(name, p.prefix)
                      THEN IndexExtensionMatch(Tail0(name, Len(p.prefix) + 1))
                      ELSE {} } : p \in CategoryPrefixes }
    \cup { [category |-> {}, digits |-> m.digits, extension |-> m.extension] :
             m \in IndexExtensionMatch(name) }

SupportedImageTypes ==
    { <<"j", "p", "g">>, <<"j", "p", "e", "g">>, <<"p", "n", "g">>,
      <<"w", "e", "b", "p">>, <<"g", "i", "f">>, <<"s", "v", "g">> }

isImageTypeSupported(extension) == extension \in SupportedImageTypes

\* --------------------------------------------------------------- file system
\* The directories the operator names at the prompts.
MetadataDir == "metadata"

MediaDir == "media"

BuildDir == "build"

Path(dir, name) == [dir |-> dir, name |-> name]

\* Content of a file of the metadata directory: text that is not JSON, a file
\* that cannot be read, the JSON value null, or a JSON object whose `name`
\* and `image` are each absent, the empty string or a non-empty string.
\* (description and attributes are copied through unchanged and left out.)
Content(kind, name, image) == [kind |-> kind, name |-> name, image |-> image]

Garbage == Content("garbage", {}, {})

Unreadable == Content("unreadable", {}, {})

JsonNull == Content("null", {}, {})

GoodToken == Content("object", {"A"}, {"ipfs://image"})

FieldValues(text) == { {}, {""}, {text} }

RichContents ==
    { Garbage, Unreadable, JsonNull }
    \cup { Content("object", n, im) :
              n \in FieldValues("A"), im \in FieldValues("ipfs://image") }

SimpleContents == { Garbage, GoodToken }

N_1json == <<"1", ".", "j", "s", "o", "n">>

N_01json == <<"0", "1", ".", "j", "s", "o", "n">>

N_2json == <<"2", ".", "j", "s", "o", "n">>

N_ajson == <<"a", ".", "j", "s", "o", "n">>

MetaNames == { N_1json, N_01json, N_2json, N_ajson }

\* Content of a media file: what image introspection reports and its bytes.
Image(w, h, bytes) == [width |-> w, height |-> h, bytes |-> bytes]

GoodImage == Image(2, 3, "px")

CorruptImage == Image(0, 0, "zz")

M_icon1 == <<"i", "c", "o", "n", "-", "1", ".", "p", "n", "g">>

M_icon01 == <<"i", "c", "o", "n", "-", "0", "1", ".", "s", "v", "g">>

M_image1 == <<"i", "m", "a", "g", "e", "-", "1", ".", "p", "n", "g">>

M_1jpg == <<"1", ".", "j", "p", "g">>

M_image2 == <<"i", "m", "a", "g", "e", "-", "2", ".", "p", "n", "g">>

M_asset1 == <<"a", "s", "s", "e", "t", "-", "1", ".", "g", "l", "b">>

M_1xyz == <<"1", ".", "x", "y", "z">>

File(name, content) == [name |-> name, content |-> content]

MediaEntries ==
    { File(n, GoodImage) :
        n \in { M_icon1, M_icon01, M_image1, M_1jpg, M_image2, M_asset1 } }
    \cup { File(n, CorruptImage) : n \in { M_1jpg, M_image2 } }

\* Directory listings (readdir order) of at most n files with distinct names.
RECURSIVE Listings(_, _)
Listings(entries, n) ==
    IF n = 0 THEN { <<>> }
    ELSE LET shorter == Listings(entries, n - 1)
         IN  shorter \cup
             { Append(l, e) : <<l, e>> \in
                 { <<l2, e2>> \in shorter \X entries :
                     /\ Len(l2) = n - 1
                     /\ \A k \in 1..Len(l2) : l2[k].name # e2.name } }

Dir(files) == [exists |-> TRUE, files |-> files]

NoDir == [exists |-> FALSE, files |-> <<>>]

Directories(entries, n) == { NoDir } \cup { Dir(l) : l \in Listings(entries, n) }

\* --------------------------------------------------------------------- state
VARIABLES
    metaFs,         \* the metadata directory on disk: [exists, files]
    mediaFs,        \* the media directory on disk: [exists, files]
    now,            \* Date.now(), in milliseconds
    build,          \* the build directory: output directory name -> (file name -> data)
    otherDir,       \* outputDir of a concurrent session between its Date.now() and mkdir
    pc,             \* position of the session's flow of control
    lastCommand,    \* the command name last read by the main loop
    exited,         \* process.exit was called
    baseUri,        \* answers of the prompts of command.invoke
    links,
    outputDir,
    files,          \* readMetadataDir: listing, loop position, result
    i,
    result,
    openSeaTokens,  \* command.invoke: the two scans' results
    mediaFiles,
    ti,             \* buildMetadata: loop position, icon, images, progress bar
    icon,
    images,
    progress,
    written,        \* the files this run's writeFile calls completed, in order
    thrown,         \* the error in flight, if any
    stderr,         \* what console.error printed during this run
    reported        \* what command.invoke printed at its end

vars == <<metaFs, mediaFs, now, build, otherDir, pc, lastCommand, exited,
          baseUri, links, outputDir, files, i, result, openSeaTokens,
          mediaFiles, ti, icon, images, progress, written, thrown, stderr,
          reported>>

envVars == <<metaFs, mediaFs>>

shellVars == <<lastCommand, exited>>

promptVars == <<baseUri, links, outputDir>>

scanVars == <<files, i, result>>

buildVars == <<ti, icon, images, progress, written>>

\* --------------------------------------------------------------------- errors
Error(message, path) == [message |-> message, dir |-> path.dir, name |-> path.name]

ReadTokenError(file) == Error("Failed to read token", file)

MetadataDirError(dir) ==
    Error("Failed to read tokens from metadata directory", Path(dir, <<>>))

MediaDirError(dir) == Error("Failed to read media from directory", Path(dir, <<>>))

ReadImageError(file) == Error("Failed to read image", file)

SystemError(call, path) == Error(call, path)

\* ------------------------------------------------------------ readMetadataDir
\* Mutant of Truthy: tests only that the field is defined.
TruthyIfDefined(value) == value # {}

\* JavaScript truthiness of a value that is undefined or a string.
Truthy(value) == value # {} /\ value # {""}

ReadFileThrows(content) == content.kind = "unreadable"

\* Mutant of JSONParseThrows: unparsable text is taken for an empty object.
JSONParseNeverThrows(content) == FALSE

JSONParseThrows(content) == content.kind # "object" /\ content.kind # "null"

\* metadata?.field of the parsed content (undefined when metadata is null).
OptionalField(content, field) ==
    IF content.kind = "object" THEN content[field] ELSE {}

\* What the loop body does with one directory entry.
TokenOutcome(file) ==
    IF TokenMetadataNameMatch(file.name) = {} THEN "nomatch"
    ELSE IF ReadFileThrows(file.content) \/ JSONParseThrows(file.content)
         THEN "throw"
    ELSE IF \/ ~Truthy(OptionalField(file.content, "name"))
            \/ ~Truthy(OptionalField(file.content, "image"))
         THEN "warn"
    ELSE "push"

OpenSeaToken(dir, file) ==
    [ index |-> Number(CHOOSE d \in TokenMetadataNameMatch(file.name) : TRUE),
      file |-> Path(dir, file.name),
      metadata |-> [name |-> file.content.name, image |-> file.content.image] ]

\* --------------------------------------------------------------- readMediaDir
parseMediaFile(file) ==
    LET info == MediaNameMatch(file.name)
        m == CHOOSE x \in info : TRUE
    IN  IF info = {} THEN {}
        ELSE IF m.category = {} /\ ~isImageTypeSupported(m.extension) THEN {}
        ELSE { [ file |-> file,
                 category |-> IF m.category = {} THEN "image"
                              ELSE CHOOSE c \in m.category : TRUE,
                 index |-> Number(m.digits),
                 extension |-> m.extension ] }

RECURSIVE ScanMedia(_, _)
ScanMedia(dir, listing) ==
    IF listing = <<>> THEN <<>>
    ELSE LET info == parseMediaFile(Path(dir, Head(listing).name))
         IN  (IF info = {} THEN <<>> ELSE <<CHOOSE x \in info : TRUE>>)
             \o ScanMedia(dir, Tail(listing))

\* --------------------------------------------------------------- buildFileInfo
\* The content of the media file at a path.
MediaContent(path) ==
    (CHOOSE k \in 1..Len(mediaFs.files) : mediaFs.files[k].name = path.name)

Returns(value) == [throws |-> FALSE, error |-> {}, value |-> value]

Throws(error) == [throws |-> TRUE, error |-> {error}, value |-> {}]

keccak256(bytes) == <<"0x", bytes>>

Url(base, index, extension) ==
    base \o <<"/">> \o NumberToString(index) \o <<".">> \o extension

\* Mutant of IntrospectionFails: the width and height are not checked.
IntrospectionNeverFails(imageInfo) == FALSE

IntrospectionFails(imageInfo) == imageInfo.width = 0 \/ imageInfo.height = 0

buildFileInfo(info, base) ==
    LET imageInfo == mediaFs.files[MediaContent(info.file)].content
    IN  IF info.category = "image"
        THEN IF IntrospectionFails(imageInfo)
             THEN Throws(ReadImageError(info.file))
             ELSE Returns({ [ width |-> imageInfo.width,
                              height |-> imageInfo.height,
                              hashFunction |-> "keccak256(bytes)",
                              hash |-> keccak256(imageInfo.bytes),
                              url |-> Url(base, info.index, info.extension) ] })
        ELSE Returns({})

\* --------------------------------------------------------------- buildMetadata
IsIconOf(info, token) == info.index = token.index /\ info.category = "icon"

\* Mutant of IsImageOf: the index is not compared.
IsImageOfAnyToken(info, token) == info.category = "image"

IsImageOf(info, token) == info.index = token.index /\ info.category = "image"

\* mediaFiles.find(...): the first matching element, or undefined.
FindIcon(media, token) ==
    LET hits == { k \in 1..Len(media) : IsIconOf(media[k], token) }
    IN  IF hits = {} THEN {}
        ELSE { media[CHOOSE k \in hits : \A j \in hits : k <= j] }

\* mediaFiles.filter(...): the matching elements, in order.
FilterImages(media, token) ==
    LET Test(info) == IsImageOf(info, token)
    IN  SelectSeq(media, Test)

\* JSON.stringify of an object: a key whose value is undefined is left out.
Stringify(object) ==
    [ key \in { k \in DOMAIN object : object[k] # {} } |-> object[key] ]

OutputData(token, iconValue, imagesValue, linksValue) ==
    [ LSP4Metadata |->
        Stringify([ name |-> token.metadata.name,
                    icon |-> iconValue,
                    images |-> imagesValue,
                    links |-> {linksValue} ]) ]

OutputFileName(token) == NumberToString(token.index) \o JsonSuffix

NewProgress == [state |-> "new", total |-> 0, value |-> 0]

ProgressStart(total) == [state |-> "active", total |-> total, value |-> 0]

\* Mutant of ProgressIncrement: the bar is not advanced.
ProgressIncrementSkipped(bar) == bar

ProgressIncrement(bar) == [bar EXCEPT !.value = @ + 1]

ProgressStop(bar) == [bar EXCEPT !.state = "stopped"]

\* ------------------------------------------------------------- initial states
BaseUris == { <<"ipfs://QmHash">> }

LinkLists == { <<[title |-> "Twitter", url |-> "https://twitter.com"]>> }

RunLocalsInit ==
    /\ baseUri = <<>>
    /\ links = <<>>
    /\ outputDir = <<>>
    /\ files = <<>>
    /\ i = 1
    /\ result = <<>>
    /\ openSeaTokens = <<>>
    /\ mediaFiles = <<>>
    /\ ti = 1
    /\ icon = {}
    /\ images = {}
    /\ progress = NewProgress
    /\ written = <<>>
    /\ thrown = {}
    /\ stderr = {}
    /\ reported = {}

\* The directories a run is checked on: every metadata directory with a few
\* media directories, and every media directory with the metadata
\* directories whose files are either valid tokens or unparsable.
FewMediaDirs ==
    { NoDir,
      Dir(<<File(M_1xyz, GoodImage), File(M_icon1, GoodImage),
            File(M_image1, GoodImage)>>) }

RichMetaDirs ==
    Directories({ File(n, c) : n \in MetaNames, c \in RichContents }, MaxMetaFiles)

SimpleMetaDirs ==
    Directories({ File(n, c) : n \in MetaNames \ {N_ajson}, c \in SimpleContents },
                MaxMetaFiles)

RunInputs ==
    (RichMetaDirs \X FewMediaDirs)
    \cup (SimpleMetaDirs \X Directories(MediaEntries, MaxMediaFiles))

\* A run of `generate metadata`, from the call of command.invoke.
Init ==
    /\ \E input \in RunInputs :
          /\ metaFs = input[1]
          /\ mediaFs = input[2]
    /\ now = 1
    /\ build = <<>>
    /\ otherDir = {}
    /\ pc = "invoke"
    /\ lastCommand = "generate metadata"
    /\ exited = FALSE
    /\ RunLocalsInit

\* ----------------------------------------------------------- command.invoke
ResetRun ==
    /\ files' = <<>>
    /\ i' = 1
    /\ result' = <<>>
    /\ openSeaTokens' = <<>>
    /\ mediaFiles' = <<>>
    /\ ti' = 1
    /\ icon' = {}
    /\ images' = {}
    /\ progress' = NewProgress
    /\ written' = <<>>
    /\ thrown' = {}
    /\ stderr' = {}
    /\ reported' = {}

\* The operator declines the confirmation prompt: invoke returns.
InvokeDecline ==
    /\ pc = "invoke"
    /\ pc' = "prompt"
    /\ UNCHANGED <<envVars, now, build, otherDir, shellVars, promptVars,
                   scanVars, openSeaTokens, mediaFiles, buildVars, thrown,
                   stderr, reported>>

\* The prompts are answered and the output directory is named by the time.
Invoke ==
    /\ pc = "invoke"
    /\ \E uri \in BaseUris, list \in LinkLists :
          /\ baseUri' = uri
          /\ links' = list
    /\ outputDir' = NumberToString(now)
    /\ ResetRun
    /\ pc' = "readMetadataDir"
    /\ UNCHANGED <<envVars, now, build, otherDir, shellVars>>

\* readMetadataDir: readdir, or the directory-level failure.
ReaddirMetadata ==
    /\ pc = "readMetadataDir"
    /\ IF metaFs.exists
       THEN /\ files' = metaFs.files
            /\ i' = 1
            /\ result' = <<>>
            /\ pc' = "metadataLoop"
            /\ UNCHANGED <<thrown, stderr>>
       ELSE /\ stderr' = stderr \cup {SystemError("ENOENT", Path(MetadataDir, <<>>))}
            /\ thrown' = {MetadataDirError(MetadataDir)}
            /\ pc' = "catch"
            /\ UNCHANGED scanVars
    /\ UNCHANGED <<envVars, now, build, otherDir, shellVars, promptVars,
                   openSeaTokens, mediaFiles, buildVars, reported>>

\* readMetadataDir: one iteration of the loop over the listing.  The error
\* of the inner catch is caught by the outer catch, printed and replaced.
ReadMetadataFile ==
    /\ pc = "metadataLoop"
    /\ i <= Len(files)
    /\ LET file == files[i]
           outcome == TokenOutcome(file)
       IN  IF outcome = "throw"
           THEN /\ stderr' = stderr \cup {ReadTokenError(Path(MetadataDir, file.name))}
                /\ thrown' = {MetadataDirError(MetadataDir)}
                /\ pc' = "catch"
                /\ UNCHANGED <<i, result>>
           ELSE /\ result' = IF outcome = "push"
                             THEN Append(result, OpenSeaToken(MetadataDir, file))
                             ELSE result
                /\ i' = i + 1
                /\ UNCHANGED <<pc, thrown, stderr>>
    /\ UNCHANGED <<envVars, now, build, otherDir, shellVars, promptVars, files,
                   openSeaTokens, mediaFiles, buildVars, reported>>

\* readMetadataDir returns its result.
ReturnTokens ==
    /\ pc = "metadataLoop"
    /\ i > Len(files)
    /\ openSeaTokens' = result
    /\ pc' = "readMediaDir"
    /\ UNCHANGED <<envVars, now, build, otherDir, shellVars, promptVars,
                   scanVars, mediaFiles, buildVars, thrown, stderr, reported>>

\* readMediaDir: the whole scan (it awaits nothing after readdir).
ReadMediaDir ==
    /\ pc = "readMediaDir"
    /\ IF mediaFs.exists
       THEN /\ mediaFiles' = ScanMedia(MediaDir, mediaFs.files)
            /\ pc' = "mkdir"
            /\ UNCHANGED <<thrown, stderr>>
       ELSE /\ stderr' = stderr \cup {SystemError("ENOENT", Path(MediaDir, <<>>))}
            /\ thrown' = {MediaDirError(MediaDir)}
            /\ pc' = "catch"
            /\ UNCHANGED mediaFiles
    /\ UNCHANGED <<envVars, now, build, otherDir, shellVars, promptVars,
                   scanVars, openSeaTokens, buildVars, reported>>

\* ------------------------------------------------------- buildMetadata steps
\* mkdir(outputDir, {recursive: true}), then the progress bar is started.
Mkdir ==
    /\ pc = "mkdir"
    /\ build' = IF outputDir \in DOMAIN build THEN build
                ELSE (outputDir :> <<>>) @@ build
    /\ progress' = ProgressStart(Len(openSeaTokens))
    /\ ti' = 1
    /\ pc' = "token"
    /\ UNCHANGED <<envVars, now, otherDir, shellVars, promptVars, scanVars,
                   openSeaTokens, mediaFiles, icon, images, written, thrown,
                   stderr, reported>>

\* mkdir fails (before the try block of buildMetadata).
MkdirFail ==
    /\ pc = "mkdir"
    /\ thrown' = {SystemError("mkdir", Path(BuildDir, outputDir))}
    /\ pc' = "catch"
    /\ UNCHANGED <<envVars, now, build, otherDir, shellVars, promptVars,
                   scanVars, openSeaTokens, mediaFiles, buildVars, stderr,
                   reported>>

\* One token: the icon is found and built, then the image jobs are built
\* and awaited together; the first failure leaves the loop.
ResolveToken ==
    /\ pc = "token"
    /\ ti <= Len(openSeaTokens)
    /\ LET token == openSeaTokens[ti]
           iconInfo == FindIcon(mediaFiles, token)
           iconJob == IF iconInfo = {} THEN Returns({})
                      ELSE buildFileInfo(CHOOSE x \in iconInfo : TRUE, baseUri)
           imageInfos == FilterImages(mediaFiles, token)
           imageJobs == [ k \in 1..Len(imageInfos) |->
                            buildFileInfo(imageInfos[k], baseUri) ]
           failed == { k \in 1..Len(imageJobs) : imageJobs[k].throws }
       IN  IF iconJob.throws
           THEN /\ thrown' = iconJob.error
                /\ pc' = "finally"
                /\ UNCHANGED <<icon, images>>
           ELSE IF failed # {}
           THEN /\ \E k \in failed : thrown' = imageJobs[k].error
                /\ pc' = "finally"
                /\ UNCHANGED <<icon, images>>
           ELSE /\ icon' = iconJob.value
                /\ images' = { << [ k \in 1..Len(imageJobs) |-> imageJobs[k].value ] >> }
                /\ pc' = "write"
                /\ UNCHANGED thrown
    /\ UNCHANGED <<envVars, now, build, otherDir, shellVars, promptVars,
                   scanVars, openSeaTokens, mediaFiles, ti, progress, written,
                   stderr, reported>>

\* writeFile completes; the progress bar advances; next token.
WriteToken ==
    /\ pc = "write"
    /\ LET token == openSeaTokens[ti]
           file == OutputFileName(token)
       IN  /\ build' = [build EXCEPT ![outputDir] =
                           (file :> OutputData(token, icon, images, links)) @@ @]
           /\ written' = Append(written, file)
    /\ progress' = ProgressIncrement(progress)
    /\ ti' = ti + 1
    /\ icon' = {}
    /\ images' = {}
    /\ pc' = "token"
    /\ UNCHANGED <<envVars, now, otherDir, shellVars, promptVars, scanVars,
                   openSeaTokens, mediaFiles, thrown, stderr, reported>>

\* writeFile fails.
WriteFail ==
    /\ pc = "write"
    /\ thrown' = {SystemError("writeFile",
                              Path(BuildDir, OutputFileName(openSeaTokens[ti])))}
    /\ pc' = "finally"
    /\ UNCHANGED <<envVars, now, build, otherDir, shellVars, promptVars,
                   scanVars, openSeaTokens, mediaFiles, buildVars, stderr,
                   reported>>

\* The finally block: the loop is over or was left by an error.
Finally ==
    /\ \/ pc = "finally"
       \/ pc = "token" /\ ti > Len(openSeaTokens)
    /\ progress' = ProgressStop(progress)
    /\ pc' = IF thrown = {} THEN "done" ELSE "catch"
    /\ UNCHANGED <<envVars, now, build, otherDir, shellVars, promptVars,
                   scanVars, openSeaTokens, mediaFiles, ti, icon, images,
                   written, thrown, stderr, reported>>

\* command.invoke after buildMetadata returned: prints the output directory.
Done ==
    /\ pc = "done"
    /\ reported' = {Error("Done!", Path(BuildDir, outputDir))}
    /\ pc' = "prompt"
    /\ UNCHANGED <<envVars, now, build, otherDir, shellVars, promptVars,
                   scanVars, openSeaTokens, mediaFiles, buildVars, thrown,
                   stderr>>

\* Mutant of Catch: the error is rethrown, main's catch exits the process.
CatchAndExit ==
    /\ pc = "catch"
    /\ reported' = thrown
    /\ thrown' = {}
    /\ exited' = TRUE
    /\ pc' = "prompt"
    /\ UNCHANGED <<envVars, now, build, otherDir, lastCommand, promptVars,
                   scanVars, openSeaTokens, mediaFiles, buildVars, stderr>>

\* The catch block of command.invoke: prints the message and returns.
Catch ==
    /\ pc = "catch"
    /\ reported' = thrown
    /\ thrown' = {}
    /\ pc' = "prompt"
    /\ UNCHANGED <<envVars, now, build, otherDir, shellVars, promptVars,
                   scanVars, openSeaTokens, mediaFiles, buildVars, stderr>>

Next ==
    \/ InvokeDecline
    \/ Invoke
    \/ ReaddirMetadata
    \/ ReadMetadataFile
    \/ ReturnTokens
    \/ ReadMediaDir
    \/ Mkdir
    \/ MkdirFail
    \/ ResolveToken
    \/ WriteToken
    \/ WriteFail
    \/ Finally
    \/ Done
    \/ Catch

Spec == Init /\ [][Next]_vars

\* ------------------------------------------------------------------ the shell
Commands == { "help", "quit", "generate metadata" }

CommandInputs == Commands \cup { "unknown" }

\* The main loop reads a command name; answering the prompt takes time.
ReadCommand(name) ==
    /\ pc = "prompt"
    /\ ~exited
    /\ \E t \in (now + 1)..MaxClock : now' = t
    /\ lastCommand' = name

\* A name that is no command: the loop prompts again.
MainUnknown ==
    /\ \E name \in CommandInputs \ Commands : ReadCommand(name)
    /\ UNCHANGED <<envVars, build, otherDir, pc, exited, promptVars, scanVars,
                   openSeaTokens, mediaFiles, buildVars, thrown, stderr,
                   reported>>

\* help: prints the list of commands and returns.
MainHelp ==
    /\ ReadCommand("help")
    /\ UNCHANGED <<envVars, build, otherDir, pc, exited, promptVars, scanVars,
                   openSeaTokens, mediaFiles, buildVars, thrown, stderr,
                   reported>>

\* quit: process.exit(0).
MainQuit ==
    /\ ReadCommand("quit")
    /\ exited' = TRUE
    /\ UNCHANGED <<envVars, build, otherDir, pc, promptVars, scanVars,
                   openSeaTokens, mediaFiles, buildVars, thrown, stderr,
                   reported>>

\* generate metadata: command.invoke is called.
MainGenerate ==
    /\ ReadCommand("generate metadata")
    /\ pc' = "invoke"
    /\ UNCHANGED <<envVars, build, otherDir, exited, promptVars, scanVars,
                   openSeaTokens, mediaFiles, buildVars, thrown, stderr,
                   reported>>

\* A second session of the same program on the same machine names its output
\* directory by the time ...
OtherInvoke ==
    /\ otherDir = {}
    /\ otherDir' = {NumberToString(now)}
    /\ UNCHANGED <<envVars, now, build, pc, shellVars, promptVars, scanVars,
                   openSeaTokens, mediaFiles, buildVars, thrown, stderr,
                   reported>>

\* ... and creates it.
OtherMkdir ==
    /\ otherDir # {}
    /\ build' = LET dir == CHOOSE d \in otherDir : TRUE
                IN  IF dir \in DOMAIN build THEN build ELSE (dir :> <<>>) @@ build
    /\ otherDir' = {}
    /\ UNCHANGED <<envVars, now, pc, shellVars, promptVars, scanVars,
                   openSeaTokens, mediaFiles, buildVars, thrown, stderr,
                   reported>>

ShellInputs ==
    { <<Dir(<<File(N_1json, GoodToken), File(N_01json, GoodToken)>>),
        Dir(<<File(M_icon1, GoodImage), File(M_image1, GoodImage)>>)>>,
      <<Dir(<<File(N_1json, GoodToken), File(N_2json, GoodToken)>>),
        Dir(<<File(M_image1, GoodImage), File(M_image2, CorruptImage)>>)>>,
      <<Dir(<<File(N_2json, Garbage)>>), NoDir>>,
      <<Dir(<<File(N_2json, GoodToken)>>), NoDir>>,
      <<NoDir, NoDir>> }

\* A session of the shell, from its first prompt.
ShellInit ==
    /\ \E input \in ShellInputs :
          /\ metaFs = input[1]
          /\ mediaFs = input[2]
    /\ now = 0
    /\ build = <<>>
    /\ otherDir = {}
    /\ pc = "prompt"
    /\ lastCommand = ""
    /\ exited = FALSE
    /\ RunLocalsInit

ShellNext ==
    \/ MainUnknown
    \/ MainHelp
    \/ MainQuit
    \/ MainGenerate
    \/ OtherInvoke
    \/ OtherMkdir
    \/ Next

ShellSpec == ShellInit /\ [][ShellNext]_vars

\* ===================================================================== claims
\* The media file on disk behind a MediaRecord.
DiskFile(info) ==
    CHOOSE f \in { mediaFs.files[k] : k \in 1..Len(mediaFs.files) } :
        f.name = info.file.name

\* The MediaDescriptor the specification asks for a MediaRecord.
ExpectedDescriptor(info) ==
    [ width |-> DiskFile(info).content.width,
      height |-> DiskFile(info).content.height,
      hashFunction |-> "keccak256(bytes)",
      hash |-> <<"0x", DiskFile(info).content.bytes>>,
      url |-> baseUri \o <<"/">> \o NumberToString(info.index) \o <<".">>
              \o info.extension ]

\* Positions of the media collection with a given index and category, in
\* scan order.
RECURSIVE MatchingFrom(_, _, _)
MatchingFrom(k, index, category) ==
    IF k > Len(mediaFiles) THEN <<>>
    ELSE (IF mediaFiles[k].index = index /\ mediaFiles[k].category = category
          THEN <<k>> ELSE <<>>)
         \o MatchingFrom(k + 1, index, category)

\* The j-th write of this run is the one whose data the file still holds.
LastWrite(j) == \A k \in (j + 1)..Len(written) : written[k] # written[j]

WrittenRecord(j) == build[outputDir][written[j]].LSP4Metadata

\* C1: for every token whose OutputRecord was written, if the media
\* collection has a record with the token's index and category icon, the
\* `icon` field is the descriptor of the first such record; if it has none,
\* the `icon` field is absent.
C1_IconDescriptor ==
    \A j \in 1..Len(written) :
        LastWrite(j) =>
            LET icons == MatchingFrom(1, openSeaTokens[j].index, "icon")
            IN  IF icons = <<>>
                THEN "icon" \notin DOMAIN WrittenRecord(j)
                ELSE /\ "icon" \in DOMAIN WrittenRecord(j)
                     /\ WrittenRecord(j).icon
                          = {ExpectedDescriptor(mediaFiles[icons[1]])}

\* C2: for every token whose OutputRecord was written, `images` is an outer
\* array of exactly one inner array, which holds the descriptors of exactly
\* the media records with the token's index and category image, in scan
\* order (empty when none matches).
C2_ImagesOfToken ==
    \A j \in 1..Len(written) :
        LastWrite(j) =>
            LET hits == MatchingFrom(1, openSeaTokens[j].index, "image")
            IN  /\ "images" \in DOMAIN WrittenRecord(j)
                /\ WrittenRecord(j).images
                     = { << [ k \in 1..Len(hits) |->
                                {ExpectedDescriptor(mediaFiles[hits[k]])} ] >> }

\* C2 witness: token 1 was written with two images of its own while the
\* media collection also holds an image of token 2.
C2_Witness ==
    /\ Len(written) >= 1
    /\ openSeaTokens[1].index = 1
    /\ Len(MatchingFrom(1, 1, "image")) = 2
    /\ Len(MatchingFrom(1, 2, "image")) = 1

\* A file of the metadata directory named <digits>.json whose content is not
\* parsable JSON.
HasUnparsableToken ==
    \E k \in 1..Len(metaFs.files) :
        /\ TokenMetadataNameMatch(metaFs.files[k].name) # {}
        /\ metaFs.files[k].content.kind = "garbage"

\* C3: with an unparsable <digits>.json file in the metadata directory the
\* scan fails: no collection is returned, the assembler is never started,
\* no output directory is created and no file is written.
C3_UnparsableAborts ==
    HasUnparsableToken =>
        /\ pc \in {"invoke", "readMetadataDir", "metadataLoop", "catch", "prompt"}
        /\ build = <<>>
        /\ written = <<>>
        /\ progress = NewProgress
        /\ openSeaTokens = <<>>
        /\ reported \subseteq {MetadataDirError(MetadataDir)}

\* C3 witness: the scan failed after a valid file had been read.
C3_Witness ==
    /\ HasUnparsableToken
    /\ pc = "prompt"
    /\ reported = {MetadataDirError(MetadataDir)}
    /\ result # <<>>

\* The matching files of the metadata directory all read and parse.
AllTokensParse ==
    /\ metaFs.exists
    /\ \A k \in 1..Len(metaFs.files) :
          TokenMetadataNameMatch(metaFs.files[k].name) # {}
              => metaFs.files[k].content.kind \in {"object", "null"}

FieldsPresent(content) ==
    content.kind = "object" /\ content.name # {} /\ content.image # {}

FieldsNonEmpty(content) ==
    /\ content.kind = "object"
    /\ content.name \notin { {}, {""} }
    /\ content.image \notin { {}, {""} }

\* Names of the files of a listing that are named <digits>.json and whose
\* content has both fields (present if ~nonEmpty, non-empty if nonEmpty), in
\* listing order.
RECURSIVE KeptNames(_, _)
KeptNames(listing, nonEmpty) ==
    IF listing = <<>> THEN <<>>
    ELSE (IF /\ Head(listing).name \in {N_1json, N_01json, N_2json}
             /\ IF nonEmpty THEN FieldsNonEmpty(Head(listing).content)
                ELSE FieldsPresent(Head(listing).content)
          THEN <<Head(listing).name>> ELSE <<>>)
         \o KeptNames(Tail(listing), nonEmpty)

ScannedNames == [ k \in 1..Len(openSeaTokens) |-> openSeaTokens[k].file.name ]

\* C4 as stated: when every matching file parses, the scan does not fail and
\* returns a record for exactly the <digits>.json files whose content has
\* `name` and `image` present, in directory-listing order.
C4_PresentFieldsIncluded ==
    AllTokensParse =>
        /\ ~(pc = "catch" /\ thrown = {MetadataDirError(MetadataDir)})
        /\ pc = "readMediaDir" =>
              ScannedNames = KeptNames(metaFs.files, FALSE)

\* C4 as amended: ... exactly the <digits>.json files whose content has
\* `name` and `image` present and not the empty string, in listing order.
C4_NonEmptyFieldsIncluded ==
    AllTokensParse =>
        /\ ~(pc = "catch" /\ thrown = {MetadataDirError(MetadataDir)})
        /\ pc = "readMediaDir" =>
              /\ ScannedNames = KeptNames(metaFs.files, TRUE)
              /\ \A k \in 1..Len(openSeaTokens) :
                    /\ openSeaTokens[k].file.dir = MetadataDir
                    /\ openSeaTokens[k].index
                         = Number(SubSeq(ScannedNames[k], 1,
                                         Len(ScannedNames[k]) - 5))

\* C4 witness: the scan returned; a file with an empty name was left out
\* and a later valid file of the same directory was kept.
C4_Witness ==
    /\ pc = "readMediaDir"
    /\ Len(metaFs.files) = 2
    /\ metaFs.files[1].content = Content("object", {""}, {"ipfs://image"})
    /\ metaFs.files[1].name = N_1json
    /\ Len(openSeaTokens) = 1
    /\ openSeaTokens[1].file.name = metaFs.files[2].name

\* C5: after a run that completes without error the output directory holds
\* as many files as the metadata scan produced TokenRecords.
C5_OneFilePerToken ==
    pc = "done" =>
        Cardinality(DOMAIN build[outputDir]) = Len(openSeaTokens)

\* C6: a failure of the metadata scan, the media scan or the assembly is
\* caught: the process is alive while the error is in flight, the catch
\* block can always run, the next position is the prompt with the error's
\* message reported, and the process exits only through the quit command.
C6_FailureReturnsToPrompt ==
    /\ [](thrown # {} => pc \in {"finally", "catch"} /\ ~exited)
    /\ [](pc = "catch" => ENABLED Catch)
    /\ [][pc = "catch" => /\ ~exited'
                          /\ \/ pc' = "catch" /\ thrown' = thrown
                             \/ pc' = "prompt" /\ reported' = thrown]_vars
    /\ [](exited => lastCommand = "quit")

\* C6 witness: a failed run was reported and the shell went on to read the
\* next command.
C6_Witness ==
    /\ pc = "prompt"
    /\ ~exited
    /\ lastCommand = "help"
    /\ reported = {MediaDirError(MediaDir)}

\* C7: no run creates its output directory under a name that already exists
\* in the build directory (the name of an earlier run).
C7_FreshOutputDir ==
    [][pc = "mkdir" /\ pc' = "token" => outputDir \notin DOMAIN build]_vars

\* C8: when the metadata scan aborts on a matching file that cannot be read
\* or parsed, the error that reaches the orchestrator names that file.
C8_ErrorNamesFile ==
    (/\ pc = "catch"
     /\ i <= Len(files)
     /\ TokenOutcome(files[i]) = "throw")
        => \A e \in thrown : e.dir = MetadataDir /\ e.name = files[i].name

\* buildMetadata ended after starting the progress bar.
BuildEnded == pc \in {"done", "catch"} /\ progress.state # "new"

\* C9 as stated: when buildMetadata ends the progress count is the number
\* of tokens whose processing was started, and the bar is stopped.
C9_ProgressCountsAttempts ==
    BuildEnded =>
        /\ progress.value = (IF thrown = {} THEN ti - 1 ELSE ti)
        /\ progress.state = "stopped"

\* C9 as amended: when buildMetadata ends the progress count is the number
\* of tokens whose file was written (all of them on normal return, the ones
\* before the failing token on error), and the bar is stopped.
C9_ProgressCountsWritten ==
    BuildEnded =>
        /\ progress.value = Len(written)
        /\ progress.total = Len(openSeaTokens)
        /\ thrown = {} => progress.value = progress.total
        /\ thrown # {} => progress.value = ti - 1 /\ ti <= progress.total
        /\ progress.state = "stopped"

\* C9 witness: buildMetadata ended by an error at the second token.
C9_Witness ==
    /\ BuildEnded
    /\ thrown # {}
    /\ ti = 2
    /\ progress.value = 1

\* The introspection of every image of a token succeeds.
ImagesReadable(token) ==
    \A k \in 1..Len(mediaFiles) :
        (mediaFiles[k].index = token.index /\ mediaFiles[k].category = "image")
            => /\ DiskFile(mediaFiles[k]).content.width > 0
               /\ DiskFile(mediaFiles[k]).content.height > 0

====
